---- MODULE Spec2Model ----
(***************************************************************************)
(* Model of the pic-dr experiment pipeline: db.py (SQLite storage layer)   *)
(* and dr.py (algorithm registry with fallbacks and the main DR flow).     *)
(*                                                                         *)
(* The specifications share the variables:                                  *)
(*   Spec      - pipeline runs (dr.py main flow) executed one after another *)
(*   SpecStore - direct calls of the storage operations of db.py           *)
(*   SpecExec  - one execution of an ALGOS entry under every environment   *)
(*   SpecFetch - calls of fetch_subset on every embeddings table           *)
(*   SpecCanon - upserts of params mappings in every insertion order       *)
(*   SpecConc  - two processes calling upsert_config at the same time      *)
(*   SpecDepr  - _handle_deprecated_params on every mapping                *)
(*   SpecRace  - two pipeline runs interleaved at their storage calls      *)
(***************************************************************************)
EXTENDS Integers, Sequences, FiniteSets, TLC

VARIABLES embeddings, configs, points, ret, run, ex

vars == <<embeddings, configs, points, ret, run, ex>>

(***************************************************************************)
(* Bounds                                                                  *)
(***************************************************************************)
MaxConfigId == 2      \* config ids used by the model are 1..MaxConfigId
MaxPoints == 2        \* rows of projection_points a direct save may reach
MaxBatch == 2         \* length of the sequence given to a direct save
MaxRunId == 1         \* config ids the runs of the pipeline use are 1..MaxRunId
MaxConcId == 3        \* config ids that concurrent calls create are at most MaxConcId
MaxKeys == 3          \* keys of a params mapping whose encoding is compared

(***************************************************************************)
(* Python dicts: insertion-ordered sequences of <<key, value>> pairs with  *)
(* unique keys.                                                            *)
(***************************************************************************)
Has(d, k) == \E i \in 1..Len(d) : d[i][1] = k

Get(d, k) == d[CHOOSE i \in 1..Len(d) : d[i][1] = k][2]

Put(d, k, v) ==
    IF Has(d, k)
    THEN [i \in 1..Len(d) |-> IF d[i][1] = k THEN <<k, v>> ELSE d[i]]
    ELSE Append(d, <<k, v>>)

Pop(d, k) == SelectSeq(d, LAMBDA kv : kv[1] # k)

Keys(d) == {d[i][1] : i \in 1..Len(d)}

Range(q) == {q[i] : i \in 1..Len(q)}

\* dict equality of Python: same key/value pairs, insertion order ignored
AsMap(d) == {d[i] : i \in 1..Len(d)}

\* the keys the model uses, in the order Python sorts str keys
KeyOrder ==
    << "decay", "ensure_all_finite", "force_all_finite", "knn", "max_iter",
       "n_components", "n_iter", "n_neighbors", "num_iters", "perplexity",
       "random_state" >>

\* an encoding that keeps the insertion order
SortKeysNone(d) == d

SortKeys(d) ==
    LET present == SelectSeq(KeyOrder, LAMBDA k : Has(d, k))
    IN  [i \in 1..Len(present) |-> <<present[i], Get(d, present[i])>>]

\* json.dumps(params, sort_keys=True): the text, as the flat token sequence
\* key1, value1, key2, value2, ... in sorted key order
JsonDumps(d) ==
    LET s == SortKeys(d)
    IN  [i \in 1..(2 * Len(s)) |-> IF i % 2 = 1 THEN s[(i + 1) \div 2][1]
                                               ELSE s[i \div 2][2]]

\* json.loads of such a text: the dict in the order of the text
JsonLoads(t) == [i \in 1..(Len(t) \div 2) |-> <<t[2 * i - 1], t[2 * i]>>]

(***************************************************************************)
(* Storage (db.py).  A database value is [embeddings, configs, points]:    *)
(*   embeddings : set of filenames (rows are never mutated; the artist of  *)
(*                a filename is ArtistOf)                                  *)
(*   configs    : function config_id -> row                                *)
(*   points     : the projection_points rows in rowid order                *)
(***************************************************************************)
Filenames == {"a1.jpg", "b1.jpg"}

ArtistOf(fn) == IF fn = "b1.jpg" THEN "B" ELSE "A"

NoId == << >>                       \* config_id = None
SomeId(i) == << i >>

ConfigIds == 1..MaxConfigId

DB == [embeddings |-> embeddings, configs |-> configs, points |-> points]

Max(S) == CHOOSE m \in S : \A n \in S : n <= m

\* INTEGER PRIMARY KEY without a value: one more than the largest rowid
NextRowId(cfgs) == IF DOMAIN cfgs = {} THEN 1 ELSE Max(DOMAIN cfgs) + 1

ConfigRow(method, strategy, size, params_json, runtime) ==
    [method |-> method, subset_strategy |-> strategy, subset_size |-> size,
     params_json |-> params_json, runtime |-> runtime]

\* ON DELETE CASCADE of projection_points.config_id
CascadeConfig(pts, cid) == SelectSeq(pts, LAMBDA r : r.config_id # cid)

\* ON DELETE CASCADE of projection_points.filename
CascadeEmbedding(pts, fn) == SelectSeq(pts, LAMBDA r : r.filename # fn)

\* body outcome of a storage operation: the uncommitted database at the
\* point where the with-block was left, and how it was left
Returned(db, val) == [raised |-> FALSE, db |-> db, exc |-> "none", val |-> val]
Raised(db, exc) == [raised |-> TRUE, db |-> db, exc |-> exc, val |-> << >>]

\* conn(): commit after the body, close in finally; closing a connection
\* with an uncommitted transaction discards it
ConnCommitInFinally(db, out) == out.db

Conn(db, out) == IF out.raised THEN db ELSE out.db

\* what conn() does to its connection without a finally clause
ConnTraceNoFinally(out) ==
    IF out.raised THEN <<"connect">> ELSE <<"connect", "commit", "close">>

\* what conn() does to its connection: sqlite3.connect, con.commit() when
\* the body has finished (also by a return inside the block), con.close()
ConnTrace(out) ==
    IF out.raised THEN <<"connect", "close">> ELSE <<"connect", "commit", "close">>

\* what a storage call leaves behind and hands to its caller
Call(db, out) ==
    [db |-> Conn(db, out), raised |-> out.raised, exc |-> out.exc, val |-> out.val,
     trace |-> ConnTrace(out),
     discarded |-> IF out.raised THEN Len(out.db.points) - Len(db.points) ELSE 0]

(***************************************************************************)
(* upsert_config                                                           *)
(***************************************************************************)
\* REPLACE INTO configs: the row at config_id, if any, is deleted (with the
\* cascade to its points) and the new row is inserted at that id
ReplaceKeepPoints(db, cid, row) ==
    [db EXCEPT !.configs =
        [i \in (DOMAIN db.configs) \cup {cid} |-> IF i = cid THEN row ELSE db.configs[i]]]

\* an overwrite that leaves an existing row as it is (INSERT OR IGNORE)
ReplaceIgnoreExisting(db, cid, row) ==
    IF cid \in DOMAIN db.configs THEN db
    ELSE [db EXCEPT !.configs = [i \in (DOMAIN db.configs) \cup {cid} |->
                                    IF i = cid THEN row ELSE db.configs[i]]]

ReplaceInto(db, cid, row) ==
    [db EXCEPT !.configs =
                 [i \in (DOMAIN db.configs) \cup {cid} |->
                     IF i = cid THEN row ELSE db.configs[i]],
               !.points = CascadeConfig(db.points, cid)]

\* a faulty overwrite that updates only the columns of the run's parameters
\* and keeps the rest of the prior row
MergeRow(old, new) ==
    [new EXCEPT !.subset_strategy = old.subset_strategy, !.runtime = old.runtime]

UpsertBodyMerging(db, method, strategy, size, params_json, runtime, config_id) ==
    LET row == ConfigRow(method, strategy, size, params_json, runtime)
    IN  IF config_id = NoId
        THEN LET id == NextRowId(db.configs)
             IN  Returned([db EXCEPT !.configs =
                               [i \in (DOMAIN db.configs) \cup {id} |->
                                   IF i = id THEN row ELSE db.configs[i]]], id)
        ELSE LET id == config_id[1]
             IN  Returned(ReplaceInto(db, id,
                            IF id \in DOMAIN db.configs
                            THEN MergeRow(db.configs[id], row) ELSE row), id)

UpsertBody(db, method, strategy, size, params_json, runtime, config_id) ==
    LET row == ConfigRow(method, strategy, size, params_json, runtime)
    IN  IF config_id = NoId
        THEN LET id == NextRowId(db.configs)
             IN  Returned([db EXCEPT !.configs =
                               [i \in (DOMAIN db.configs) \cup {id} |->
                                   IF i = id THEN row ELSE db.configs[i]]], id)
        ELSE Returned(ReplaceInto(db, config_id[1], row), config_id[1])

upsert_config(db, method, strategy, size, params, runtime, config_id) ==
    Call(db, UpsertBody(db, method, strategy, size, JsonDumps(params), runtime,
                        config_id))

(***************************************************************************)
(* save_points                                                             *)
(***************************************************************************)
\* values a caller may hand over as a coordinate
Num(n) == [kind |-> "num", v |-> n]
NaN == [kind |-> "nan", v |-> 0]
NotANumber == [kind |-> "str", v |-> 0]

\* float(x): raises for a value that is no number
Floatable(x) == x.kind # "str"

\* SQLite stores a NaN as NULL
IsNull(x) == x.kind = "nan"

PointRow(fn, ar, cid, x, y) ==
    [filename |-> fn, artist |-> ar, config_id |-> cid, x |-> x.v, y |-> y.v]

\* with the foreign keys not enforced
RowCheckNoFK(db, t, cid) ==
    IF IsNull(t[3]) \/ IsNull(t[4]) THEN "IntegrityError: NOT NULL" ELSE "ok"

\* the constraints of projection_points with foreign_keys = ON: NOT NULL is
\* checked when the row is written, the foreign keys when the statement ends
RowCheck(db, t, cid) ==
    IF IsNull(t[3]) \/ IsNull(t[4]) THEN "IntegrityError: NOT NULL"
    ELSE IF t[1] \notin db.embeddings \/ cid \notin DOMAIN db.configs
         THEN "IntegrityError: FOREIGN KEY"
         ELSE "ok"

\* executemany: one INSERT per tuple, stopping at the first that fails
RECURSIVE InsertMany(_, _, _, _)
InsertMany(db, tuples, cid, i) ==
    IF i > Len(tuples)
    THEN Returned(db, << >>)
    ELSE IF RowCheck(db, tuples[i], cid) # "ok"
         THEN Raised(db, RowCheck(db, tuples[i], cid))
         ELSE InsertMany(
                [db EXCEPT !.points =
                    Append(@, PointRow(tuples[i][1], tuples[i][2], cid,
                                       tuples[i][3], tuples[i][4]))],
                tuples, cid, i + 1)

SavePointsBody(db, cid, tuples) ==
    IF \E i \in 1..Len(tuples) : ~Floatable(tuples[i][3]) \/ ~Floatable(tuples[i][4])
    THEN Raised(db, "ValueError")
    ELSE InsertMany(db, tuples, cid, 1)

save_points(db, cid, tuples) == Call(db, SavePointsBody(db, cid, tuples))

(***************************************************************************)
(* load_config_blob                                                        *)
(***************************************************************************)
LoadBodyAllPoints(db, cid) ==
    IF cid \notin DOMAIN db.configs
    THEN Raised(db, "KeyError")
    ELSE Returned(db, [config |-> db.configs[cid],
                       config_id |-> cid,
                       points |-> db.points])

LoadBody(db, cid) ==
    IF cid \notin DOMAIN db.configs
    THEN Raised(db, "KeyError")
    ELSE Returned(db, [config |-> db.configs[cid],
                       config_id |-> cid,
                       points |-> SelectSeq(db.points, LAMBDA r : r.config_id = cid)])

load_config_blob(db, cid) == Call(db, LoadBody(db, cid))

(***************************************************************************)
(* deletions under the schema (foreign_keys = ON, ON DELETE CASCADE)       *)
(***************************************************************************)
DeleteConfigNoCascade(db, cid) ==
    [db EXCEPT !.configs = [i \in (DOMAIN db.configs) \ {cid} |-> db.configs[i]]]

DeleteConfigRow(db, cid) ==
    [db EXCEPT !.configs = [i \in (DOMAIN db.configs) \ {cid} |-> db.configs[i]],
               !.points = CascadeConfig(db.points, cid)]

DeleteEmbeddingRow(db, fn) ==
    [db EXCEPT !.embeddings = @ \ {fn},
               !.points = CascadeEmbedding(db.points, fn)]

(***************************************************************************)
(* Inputs of the direct storage calls                                      *)
(***************************************************************************)
ConfigInputs ==
    { [method |-> "umap", subset_strategy |-> "random", subset_size |-> 2,
       params |-> << <<"n_neighbors", 15>> >>, runtime |-> 1],
      [method |-> "tsne", subset_strategy |-> "artist_first5", subset_size |-> 1,
       params |-> << <<"perplexity", 30>>, <<"n_components", 2>> >>, runtime |-> 2] }

IdInputs == {NoId} \cup {SomeId(i) : i \in ConfigIds}

\* tuples (filename, artist, x, y): one per embedding, one of an unknown
\* filename, one with a NaN and one with a value that is no number
PointInputs ==
    { <<fn, ArtistOf(fn), Num(0), Num(0)>> : fn \in Filenames \cup {"ghost.jpg"} }
    \cup { <<"a1.jpg", "A", NaN, Num(0)>>, <<"a1.jpg", "A", Num(0), NotANumber>> }

RECURSIVE SeqsUpTo(_, _)
SeqsUpTo(S, n) ==
    IF n = 0 THEN {<< >>}
    ELSE LET shorter == SeqsUpTo(S, n - 1)
         IN  shorter \cup {Append(s, e) : s \in {t \in shorter : Len(t) = n - 1}, e \in S}

SaveInputs == SeqsUpTo(PointInputs, MaxBatch)

\* the direct storage call whose result the caller is looking at: its
\* outcome, the config id it was given or returned, what load_config_blob
\* returned, and facts about the call: whether the config id existed, the
\* number of points before it, the rows its abandoned transaction had
\* written, the length of the sequence to save, whether the sequence holds
\* a reference to no embedding or no config, or a value that is no number,
\* the arguments of a fetch_subset, the rows it returned and whether it
\* queried the embeddings, and what the call did to its connection
NoRet ==
    [op |-> "none", status |-> "none", cid |-> 0, blob |-> << >>,
     existed |-> FALSE, npoints |-> 0, discarded |-> 0,
     rows |-> 0, dangling |-> FALSE, badvalue |-> FALSE,
     strategy |-> "none", size |-> 0, seed |-> << >>, meta |-> << >>,
     queried |-> FALSE, trace |-> << >>, params |-> << >>]

RetOf(op, cid, call) ==
    [NoRet EXCEPT
       !.op = op,
       !.status = IF call.raised THEN call.exc ELSE "ok",
       !.cid = cid,
       !.blob = IF op = "load_config_blob" /\ ~call.raised THEN <<call.val>> ELSE << >>,
       !.npoints = Len(points),
       !.discarded = call.discarded,
       !.trace = call.trace]

SetDB(db) ==
    /\ embeddings' = db.embeddings
    /\ configs' = db.configs
    /\ points' = db.points

\* a tuple of the sequence references no embedding, or the config id no config
Dangling(cid, ts) ==
    \E i \in 1..Len(ts) : ts[i][1] \notin embeddings \/ cid \notin DOMAIN configs

\* a coordinate of the sequence is no number or is NaN
BadValue(ts) ==
    \E i \in 1..Len(ts) : ts[i][3].kind # "num" \/ ts[i][4].kind # "num"

(***************************************************************************)
(* fetch_subset                                                            *)
(***************************************************************************)
PerArtist == 5
MinSize == 1
MaxSize == 500

Min(a, b) == IF a <= b THEN a ELSE b

\* the filenames of the model in the order of the window: by artist, then
\* by filename
FileOrder == <<"a1.jpg", "a2.jpg", "a3.jpg", "a4.jpg", "a5.jpg", "a6.jpg", "b1.jpg">>

Pos(fn) == CHOOSE i \in 1..Len(FileOrder) : FileOrder[i] = fn

\* ROW_NUMBER() OVER (PARTITION BY artist ORDER BY filename)
RowNumber(emb, fn) ==
    Cardinality({g \in emb : ArtistOf(g) = ArtistOf(fn) /\ Pos(g) <= Pos(fn)})

\* LIMIT ?; a negative limit is no limit
Limit(q, n) == IF n < 0 THEN q ELSE SubSeq(q, 1, Min(n, Len(q)))

\* the rows the window keeps
Ranked(emb, n) == SelectSeq(FileOrder, LAMBDA fn : fn \in emb /\ RowNumber(emb, fn) <= n)

\* a window that keeps every row
ArtistFirst5Unranked(emb, size) == Limit(Ranked(emb, Cardinality(emb)), size)

ArtistFirst5(emb, size) == Limit(Ranked(emb, PerArtist), size)

\* the orders in which k rows of S can come
RECURSIVE Draws(_, _)
Draws(S, k) ==
    IF k = 0 \/ S = {} THEN {<< >>}
    ELSE UNION {{<<e>> \o q : q \in Draws(S \ {e}, k - 1)} : e \in S}

\* ORDER BY random() LIMIT size: any draw of distinct rows
RandomDraws(emb, size) ==
    Draws(emb, IF size < 0 THEN Cardinality(emb) ELSE Min(size, Cardinality(emb)))

NoSeed == << >>                     \* rng_state = None

\* a body that takes every other strategy name for random
FetchBodyAnyStrategy(db, strategy, size, rng_state) ==
    IF strategy = "artist_first5"
    THEN {Returned(db, ArtistFirst5(db.embeddings, size))}
    ELSE {Returned(db, q) : q \in RandomDraws(db.embeddings, size)}

\* the body of the with block: the rows, or the exception; SELECT random(?)
\* is no function of SQLite and raises
FetchBody(db, strategy, size, rng_state) ==
    CASE strategy = "artist_first5" ->
            {Returned(db, ArtistFirst5(db.embeddings, size))}
      [] strategy = "random" ->
            IF rng_state # NoSeed
            THEN {Raised(db, "OperationalError")}
            ELSE {Returned(db, q) : q \in RandomDraws(db.embeddings, size)}
      [] OTHER -> {Raised(db, "ValueError: strategy")}

\* after the with block: the metadata rows (filenames); np.vstack raises for
\* an empty list of rows.  Both exceptions of the body come before the
\* SELECT on embeddings.
FetchDone(call) ==
    [db |-> call.db, trace |-> call.trace, queried |-> ~call.raised,
     raised |-> call.raised \/ call.val = << >>,
     exc |-> IF call.raised THEN call.exc
             ELSE IF call.val = << >> THEN "ValueError: vstack" ELSE "none",
     meta |-> call.val]

\* the results fetch_subset can have
fetch_subset(db, strategy, size, rng_state) ==
    {FetchDone(Call(db, o)) : o \in FetchBody(db, strategy, size, rng_state)}

\* arguments of fetch_subset
StrategyInputs == {"random", "artist_first5", "bogus"}
SeedInputs == {NoSeed, <<7>>}
FetchSizes == {MinSize, 5, 6, MaxSize}
FetchFiles == Range(FileOrder)

(***************************************************************************)
(* Actions of SpecStore: a caller makes one storage call at a time and     *)
(* looks at its result (ret) before the next call                          *)
(***************************************************************************)
UpsertConfig(v, config_id) ==
    LET call == upsert_config(DB, v.method, v.subset_strategy, v.subset_size,
                              v.params, v.runtime, config_id)
    IN  /\ ret.op = "none"
        /\ config_id = NoId => NextRowId(configs) <= MaxConfigId
        /\ SetDB(call.db)
        /\ ret' = [RetOf("upsert_config", call.val, call) EXCEPT
                     !.existed = call.val \in DOMAIN configs]
        /\ UNCHANGED <<run, ex>>

SavePoints(cid, tuples) ==
    LET call == save_points(DB, cid, tuples)
    IN  /\ ret.op = "none"
        /\ Len(call.db.points) <= MaxPoints
        /\ SetDB(call.db)
        /\ ret' = [RetOf("save_points", cid, call) EXCEPT
                     !.existed = cid \in DOMAIN configs,
                     !.rows = Len(tuples),
                     !.dangling = Dangling(cid, tuples),
                     !.badvalue = BadValue(tuples)]
        /\ UNCHANGED <<run, ex>>

LoadConfigBlob(cid) ==
    LET call == load_config_blob(DB, cid)
    IN  /\ ret.op = "none"
        /\ SetDB(call.db)
        /\ ret' = [RetOf("load_config_blob", cid, call) EXCEPT
                     !.existed = cid \in DOMAIN configs]
        /\ UNCHANGED <<run, ex>>

DeleteConfig(cid) ==
    /\ ret.op = "none"
    /\ cid \in DOMAIN configs
    /\ SetDB(DeleteConfigRow(DB, cid))
    /\ ret' = [NoRet EXCEPT !.op = "delete_config", !.status = "ok", !.cid = cid,
                            !.existed = TRUE, !.npoints = Len(points)]
    /\ UNCHANGED <<run, ex>>

DeleteEmbedding(fn) ==
    /\ ret.op = "none"
    /\ fn \in embeddings
    /\ SetDB(DeleteEmbeddingRow(DB, fn))
    /\ ret' = [NoRet EXCEPT !.op = "delete_embedding", !.status = "ok",
                            !.npoints = Len(points)]
    /\ UNCHANGED <<run, ex>>

FetchSubset(strategy, size, rng_state) ==
    /\ ret.op = "none"
    /\ \E f \in fetch_subset(DB, strategy, size, rng_state) :
          /\ SetDB(f.db)
          /\ ret' = [NoRet EXCEPT !.op = "fetch_subset",
                                  !.status = IF f.raised THEN f.exc ELSE "ok",
                                  !.npoints = Len(points),
                                  !.strategy = strategy, !.size = size,
                                  !.seed = rng_state, !.meta = f.meta,
                                  !.queried = f.queried, !.trace = f.trace]
    /\ UNCHANGED <<run, ex>>

\* the caller has seen the result
Return ==
    /\ ret.op # "none"
    /\ ret' = NoRet
    /\ UNCHANGED <<embeddings, configs, points, run, ex>>

NextStore ==
    \/ \E v \in ConfigInputs, i \in IdInputs : UpsertConfig(v, i)
    \/ \E cid \in ConfigIds, ts \in SaveInputs : SavePoints(cid, ts)
    \/ \E cid \in ConfigIds : LoadConfigBlob(cid)
    \/ \E cid \in ConfigIds : DeleteConfig(cid)
    \/ \E fn \in Filenames : DeleteEmbedding(fn)
    \/ \E s \in StrategyInputs, rs \in SeedInputs : FetchSubset(s, MaxSize, rs)
    \/ Return

\* a run of dr.py that is not running, and what a finished run leaves to
\* look at: how far it came and the exception that ended it, its arguments
\* after parsing, the sampled rows, the wrapper's outcome, the config id
\* upsert_config returned and the number of points its REPLACE removed, the
\* lines on stdout and on stderr, and the tables as they were at its start
IdleRun ==
    [pc |-> "idle", stage |-> "none", error |-> "none",
     method |-> "none", strategy |-> "none", size |-> 0, cfg |-> << >>,
     config_id |-> NoId, meta |-> << >>, res |-> << >>, cid |-> 0, cascaded |-> 0,
     stdout |-> << >>, stderr |-> << >>, queried |-> FALSE,
     before |-> [configs |-> << >>, points |-> << >>]]

\* no wrapper call is being looked at
NoEx == [phase |-> "none", method |-> "none", cfg |-> << >>, env |-> << >>, res |-> << >>]

Init ==
    /\ embeddings = Filenames
    /\ configs = << >>
    /\ points = << >>
    /\ ret = NoRet
    /\ run = IdleRun
    /\ ex = NoEx

SpecStore == Init /\ [][NextStore]_vars

(***************************************************************************)
(* SpecCanon: upserts of params mappings built in every insertion order,   *)
(* and of the mapping read back from the stored params_json                *)
(***************************************************************************)
CanonKeys == {"n_components", "n_neighbors", "perplexity"}
CanonValues == {2, 15}

DictInputs ==
    {d \in SeqsUpTo(CanonKeys \X CanonValues, MaxKeys) :
        \A i, j \in 1..Len(d) : i # j => d[i][1] # d[j][1]}

UpsertParams(p) ==
    LET call == upsert_config(DB, "umap", "random", MinSize, p, 1, SomeId(1))
    IN  /\ ret.op = "none"
        /\ SetDB(call.db)
        /\ ret' = [RetOf("upsert_config", call.val, call) EXCEPT
                     !.existed = call.val \in DOMAIN configs, !.params = p]
        /\ UNCHANGED <<run, ex>>

\* the caller parses the stored params_json and upserts the result
UpsertStoredParams ==
    /\ ret.op = "upsert_config"
    /\ LET p == JsonLoads(configs[ret.cid].params_json)
           call == upsert_config(DB, "umap", "random", MinSize, p, 1, SomeId(ret.cid))
       IN  /\ SetDB(call.db)
           /\ ret' = [RetOf("upsert_config", call.val, call) EXCEPT
                        !.op = "upsert_config again", !.existed = TRUE, !.params = p]
    /\ UNCHANGED <<run, ex>>

NextCanon ==
    \/ \E p \in DictInputs : UpsertParams(p)
    \/ UpsertStoredParams
    \/ Return

SpecCanon == Init /\ [][NextCanon]_vars

(***************************************************************************)
(* SpecConc: two processes call upsert_config at the same time, each on    *)
(* its own connection.  In this specification ret maps a process to its    *)
(* call: where it is, its arguments, the outcome of the body that its open *)
(* transaction holds, the result, whether another call was under way, and  *)
(* what was done to the connection.                                        *)
(***************************************************************************)
Procs == {1, 2}

IdleCall ==
    [phase |-> "idle", args |-> << >>, config_id |-> NoId, pending |-> << >>,
     status |-> "none", cid |-> 0, overlap |-> FALSE, trace |-> << >>]

\* a database with one config and a point of it, as a completed run leaves it
OneRunDB ==
    [embeddings |-> Filenames,
     configs |-> (1 :> ConfigRow("phate", "random", MinSize, JsonDumps(<< >>), 1)),
     points |-> <<PointRow("a1.jpg", "A", 1, Num(1), Num(0))>>]

InitConc ==
    /\ \E db \in {[embeddings |-> Filenames, configs |-> << >>, points |-> << >>],
                   OneRunDB} :
          /\ embeddings = db.embeddings
          /\ configs = db.configs
          /\ points = db.points
    /\ ret = [p \in Procs |-> IdleCall]
    /\ run = IdleRun
    /\ ex = NoEx

\* a write statement gets the lock of the database file every time
CanWriteUnlocked(p) == TRUE

\* SQLite lets one connection at a time hold the write lock of the database
\* file, from its first write statement to the end of its transaction
CanWrite(p) == \A q \in Procs \ {p} : ret[q].phase # "written"

Others(p) == \E q \in Procs \ {p} : ret[q].phase \in {"connected", "written"}

\* sqlite3.connect, PRAGMA foreign_keys = ON
Connect(p, v, config_id) ==
    /\ ret[p].phase = "idle"
    /\ ret' = [ret EXCEPT ![p] = [IdleCall EXCEPT !.phase = "connected", !.args = <<v>>,
                                                  !.config_id = config_id,
                                                  !.overlap = Others(p),
                                                  !.trace = <<"connect">>]]
    /\ UNCHANGED <<embeddings, configs, points, run, ex>>

\* the INSERT or REPLACE of the body, in the transaction it opens
Write(p) ==
    /\ ret[p].phase = "connected"
    /\ CanWrite(p)
    /\ ret[p].config_id = NoId => NextRowId(configs) <= MaxConcId
    /\ LET v == ret[p].args[1]
           out == UpsertBody(DB, v.method, v.subset_strategy, v.subset_size,
                             JsonDumps(v.params), v.runtime, ret[p].config_id)
       IN  ret' = [ret EXCEPT ![p].phase = "written", ![p].pending = <<out>>,
                              ![p].overlap = @ \/ Others(p)]
    /\ UNCHANGED <<embeddings, configs, points, run, ex>>

\* the lock is held by another connection until the busy timeout is over:
\* the statement raises and conn() closes the connection
Busy(p) ==
    /\ ret[p].phase = "connected"
    /\ ~CanWrite(p)
    /\ LET call == Call(DB, Raised(DB, "OperationalError: locked"))
       IN  ret' = [ret EXCEPT ![p].phase = "returned", ![p].status = call.exc,
                              ![p].overlap = TRUE, ![p].trace = call.trace]
    /\ UNCHANGED <<embeddings, configs, points, run, ex>>

\* con.commit(), con.close() and the return of upsert_config
Commit(p) ==
    /\ ret[p].phase = "written"
    /\ LET call == Call(DB, ret[p].pending[1])
       IN  /\ SetDB(call.db)
           /\ ret' = [ret EXCEPT ![p].phase = "returned", ![p].pending = << >>,
                                  ![p].status = IF call.raised THEN call.exc ELSE "ok",
                                  ![p].cid = call.val, ![p].trace = call.trace]
    /\ UNCHANGED <<run, ex>>

\* the caller has seen the result
Done(p) ==
    /\ ret[p].phase = "returned"
    /\ ret' = [ret EXCEPT ![p] = IdleCall]
    /\ UNCHANGED <<embeddings, configs, points, run, ex>>

NextConc ==
    \/ \E p \in Procs, v \in ConfigInputs, i \in IdInputs : Connect(p, v, i)
    \/ \E p \in Procs : Write(p)
    \/ \E p \in Procs : Busy(p)
    \/ \E p \in Procs : Commit(p)
    \/ \E p \in Procs : Done(p)

SpecConc == InitConc /\ [][NextConc]_vars

(***************************************************************************)
(* SpecFetch: calls of fetch_subset on every embeddings table              *)
(***************************************************************************)
InitFetch ==
    /\ embeddings \in SUBSET FetchFiles
    /\ configs = << >>
    /\ points = << >>
    /\ ret = NoRet
    /\ run = IdleRun
    /\ ex = NoEx

NextFetch ==
    \/ \E s \in StrategyInputs, n \in FetchSizes, rs \in SeedInputs : FetchSubset(s, n, rs)
    \/ Return

SpecFetch == InitFetch /\ [][NextFetch]_vars

(***************************************************************************)
(* Algorithm registry (dr.py, ALGOS).  The environment gives, for each     *)
(* external package, whether it can be imported and whether its            *)
(* fit/transform raises; the status of a wrapper's primary package covers  *)
(* all the imports of its try block.                                       *)
(***************************************************************************)
Methods ==
    {"umap", "tsne", "phate", "pacmap", "spacemap", "trimap", "tsnepso", "glle", "clmds"}

Libs ==
    {"umap", "openTSNE", "sklearn", "phate", "pacmap", "spacemap", "trimap",
     "tsne_pso", "GLLE", "cluster_mds"}

Status == {"ok", "missing", "raises"}

\* the package a wrapper tries first
Primary(method) ==
    CASE method = "umap" -> "umap"
      [] method = "tsne" -> "openTSNE"
      [] method = "phate" -> "phate"
      [] method = "pacmap" -> "pacmap"
      [] method = "spacemap" -> "spacemap"
      [] method = "trimap" -> "trimap"
      [] method = "tsnepso" -> "tsne_pso"
      [] method = "glle" -> "GLLE"
      [] method = "clmds" -> "cluster_mds"

\* the alternates a wrapper names, in the order of its handlers
Fallbacks(method) ==
    CASE method = "umap" -> << >>
      [] method = "tsne" -> <<"sklearn">>
      [] method = "tsnepso" -> <<"umap", "sklearn">>
      [] OTHER -> <<"umap">>

NoErr == [type |-> "none", origin |-> "none", causes |-> << >>]

\* an exception: its class, the wrapper or package that raised it and the
\* underlying failures its message carries (the str(e) it was built from)
Err(type, origin, causes) == [type |-> type, origin |-> origin, causes |-> causes]

\* the outcome of a wrapper: the package that returned the matrix and the
\* keyword arguments it was given, the packages tried in order, the notices
\* printed, and the exception raised
OkRes(impl, cfg, attempts, notices) ==
    [ok |-> TRUE, impl |-> impl, cfg |-> cfg, attempts |-> attempts,
     notices |-> notices, err |-> NoErr]

FailRes(err, attempts, notices) ==
    [ok |-> FALSE, impl |-> "none", cfg |-> << >>, attempts |-> attempts,
     notices |-> notices, err |-> err]

\* a wrapper that went on to a fallback: what was tried and printed before
\* comes first
After(attempts, notices, r) ==
    [r EXCEPT !.attempts = attempts \o @, !.notices = notices \o @]

\* the call of a package's fit/transform raises
CallRaises(lib, cfg, env) == env[lib] = "raises"

\* for key, value in defaults.items(): if key not in cfg: cfg[key] = value
RECURSIVE ApplyDefaults(_, _)
ApplyDefaults(cfg, defaults) ==
    IF defaults = << >> THEN cfg
    ELSE ApplyDefaults(IF Has(cfg, Head(defaults)[1]) THEN cfg
                       ELSE Append(cfg, Head(defaults)),
                       Tail(defaults))

NComponentsDefault == << <<"n_components", 2>> >>

\* a renaming that does not look whether the current key is supplied
HandleDeprecatedAlways(cfg) ==
    LET c1 == IF Has(cfg, "force_all_finite")
              THEN Put(Pop(cfg, "force_all_finite"), "ensure_all_finite",
                       Get(cfg, "force_all_finite"))
              ELSE cfg
    IN  IF Has(c1, "n_iter")
        THEN Put(Pop(c1, "n_iter"), "max_iter", Get(c1, "n_iter"))
        ELSE c1

\* updated_cfg = cfg.copy(): the caller's mapping after the call
ArgAfterDeprecated(cfg) == cfg

\* _handle_deprecated_params
HandleDeprecated(cfg) ==
    LET c1 == IF Has(cfg, "force_all_finite") /\ ~Has(cfg, "ensure_all_finite")
              THEN Append(Pop(cfg, "force_all_finite"),
                          <<"ensure_all_finite", Get(cfg, "force_all_finite")>>)
              ELSE cfg
    IN  IF Has(c1, "n_iter") /\ ~Has(c1, "max_iter")
        THEN Append(Pop(c1, "n_iter"), <<"max_iter", Get(c1, "n_iter")>>)
        ELSE c1

Umap(cfg, env) ==
    IF env["umap"] = "missing"
    THEN FailRes(Err("ImportError", "umap", << >>), <<"umap">>, << >>)
    ELSE LET c == HandleDeprecated(ApplyDefaults(cfg, NComponentsDefault))
         IN  IF CallRaises("umap", c, env)
             THEN FailRes(Err("Exception", "umap", << >>), <<"umap">>, << >>)
             ELSE OkRes("umap", c, <<"umap">>, << >>)

Tsne(cfg, env) ==
    IF env["openTSNE"] = "missing"
    THEN IF env["sklearn"] = "missing"
         THEN FailRes(Err("ImportError", "tsne", << >>), <<"openTSNE", "sklearn">>, << >>)
         ELSE LET c == HandleDeprecated(ApplyDefaults(cfg, NComponentsDefault))
                  note == <<"Warning: Using sklearn's TSNE instead of openTSNE">>
              IN  IF CallRaises("sklearn", c, env)
                  THEN FailRes(Err("Exception", "tsne", <<"sklearn">>),
                               <<"openTSNE", "sklearn">>, note)
                  ELSE OkRes("sklearn", c, <<"openTSNE", "sklearn">>, note)
    ELSE LET c == HandleDeprecated(ApplyDefaults(cfg, NComponentsDefault))
         IN  IF CallRaises("openTSNE", c, env)
             THEN FailRes(Err("Exception", "openTSNE", << >>), <<"openTSNE">>, << >>)
             ELSE OkRes("openTSNE", c, <<"openTSNE">>, << >>)

\* the shape shared by phate, pacmap, spacemap and trimap: the primary with
\* its defaults; on ImportError (only) a notice and umap with the remapped
\* keyword arguments; a failure of that fallback is re-raised as ImportError
\* with the failure's text
WithUmapFallback(method, lib, cfg, env, defaults, umap_cfg, notice) ==
    IF env[lib] = "missing"
    THEN LET r == Umap(umap_cfg, env)
         IN  IF r.ok
             THEN After(<<lib>>, <<notice>>, r)
             ELSE FailRes(Err("ImportError", method, <<r.err.origin>>),
                          <<lib>> \o r.attempts, <<notice>> \o r.notices)
    ELSE LET c == ApplyDefaults(cfg, defaults)
         IN  IF CallRaises(lib, c, env)
             THEN FailRes(Err("Exception", lib, << >>), <<lib>>, << >>)
             ELSE OkRes(lib, c, <<lib>>, << >>)

PhateUmapCfg(cfg) ==
    LET c1 == IF Has(cfg, "knn")
              THEN Append(Pop(cfg, "knn"), <<"n_neighbors", Get(cfg, "knn")>>)
              ELSE cfg
    IN  Pop(c1, "decay")

Phate(cfg, env) ==
    WithUmapFallback("phate", "phate", cfg, env, NComponentsDefault, PhateUmapCfg(cfg),
                     "Warning: PHATE package not found, falling back to UMAP")

PacmapDefaults ==
    << <<"n_components", 2>>, <<"n_neighbors", 10>>, <<"num_iters", 450>>,
       <<"lr", "1.0">>, <<"MN_ratio", "0.5">>, <<"FP_ratio", "2.0">>,
       <<"apply_pca", TRUE>>, <<"preprocess_pca", 50>>, <<"backend", "annoy">>,
       <<"verbose", FALSE>> >>

\* (the import of sklearn's PCA next to pacmap is taken to succeed)
Pacmap(cfg, env) ==
    WithUmapFallback("pacmap", "pacmap", cfg, env, PacmapDefaults, cfg,
                     "Warning: PaCMAP package not found, falling back to UMAP")

SpacemapDefaults ==
    << <<"n_near_field", 21>>, <<"n_middle_field", 50>>, <<"eta", "0.6">>,
       <<"n_epochs", 200>>, <<"n_components", 2>>, <<"d_local", 0>>,
       <<"d_global", "4.5">>, <<"init", "spectral">>, <<"metric", "euclidean">>,
       <<"plot_results", FALSE>>, <<"num_plots", 0>>, <<"verbose", TRUE>> >>

Spacemap(cfg, env) ==
    WithUmapFallback("spacemap", "spacemap", cfg, env, SpacemapDefaults, cfg,
                     "Warning: SpaceMAP package not found, falling back to UMAP")

TrimapSpecific ==
    <<"n_inliers", "n_outliers", "weight_adj", "lr", "n_iters", "n_random",
      "distance", "apply_pca", "verbose">>

RECURSIVE PopAll(_, _)
PopAll(cfg, ks) == IF ks = << >> THEN cfg ELSE PopAll(Pop(cfg, Head(ks)), Tail(ks))

TrimapUmapCfg(cfg) ==
    LET c1 == PopAll(cfg, TrimapSpecific)
        c2 == IF Has(cfg, "n_iters") /\ ~Has(c1, "n_epochs")
              THEN Append(c1, <<"n_epochs", Get(cfg, "n_iters")>>)
              ELSE c1
    IN  IF ~Has(c2, "n_neighbors") /\ Has(cfg, "n_neighbors")
        THEN Append(c2, <<"n_neighbors", Get(cfg, "n_neighbors")>>)
        ELSE c2

Trimap(cfg, env) ==
    WithUmapFallback("trimap", "trimap", cfg, env, NComponentsDefault, TrimapUmapCfg(cfg),
                     "Warning: TriMAP package not found, falling back to UMAP")

TsnepsoDefaults ==
    << <<"n_components", 2>>, <<"perplexity", 30>>, <<"n_iter", 500>>,
       <<"n_particles", 10>>, <<"inertia_weight", "0.7">>, <<"learning_rate", 200>>,
       <<"h", "1e-20">>, <<"f", "1e-21">>, <<"use_hybrid", TRUE>>,
       <<"dynamic_weight_adaptation", TRUE>>, <<"parameter_optimization", TRUE>>,
       <<"small_dataset_handling", TRUE>>, <<"numerical_robustness", TRUE>> >>

SklearnTsneKeys == {"n_components", "perplexity", "learning_rate", "n_iter"}

Tsnepso(cfg, env) ==
    LET note1 == "Warning: TSNE-PSO package not found, falling back to UMAP"
        note2 == "Warning: TSNE-PSO and UMAP packages not found, falling back to sklearn's TSNE"
    IN  IF env["tsne_pso"] = "missing"
        THEN LET r == Umap(cfg, env)
             IN  IF r.ok
                 THEN After(<<"tsne_pso">>, <<note1>>, r)
                 ELSE LET tsne_cfg == SelectSeq(cfg, LAMBDA kv : kv[1] \in SklearnTsneKeys)
                          tried == <<"tsne_pso">> \o r.attempts \o <<"sklearn">>
                      IN  IF env["sklearn"] = "missing" \/ CallRaises("sklearn", tsne_cfg, env)
                          THEN FailRes(Err("ImportError", "tsnepso",
                                           <<r.err.origin, "sklearn">>),
                                       tried, <<note1, note2>>)
                          ELSE OkRes("sklearn", tsne_cfg, tried, <<note1, note2>>)
        ELSE LET c == ApplyDefaults(cfg, TsnepsoDefaults)
             IN  IF CallRaises("tsne_pso", c, env)
                 THEN FailRes(Err("Exception", "tsne_pso", << >>), <<"tsne_pso">>, << >>)
                 ELSE OkRes("tsne_pso", c, <<"tsne_pso">>, << >>)

\* a wrapper that goes on to umap although its primary returned a result
WithUmapFallbackAlways(method, lib, cfg, env, defaults, notFound, onError) ==
    IF env[lib] = "missing"
    THEN LET r == Umap(cfg, env)
         IN  IF r.ok
             THEN After(<<lib>>, <<notFound>>, r)
             ELSE FailRes(Err("ImportError", method, <<r.err.origin>>),
                          <<lib>> \o r.attempts, <<notFound>> \o r.notices)
    ELSE After(<<lib>>, <<onError>>, Umap(ApplyDefaults(cfg, defaults), env))

\* the shape shared by glle and clmds: as above, and in addition any other
\* exception of the primary prints a notice and returns umap's result, the
\* keyword arguments being those the try block had filled with its defaults;
\* a failure of umap then leaves the wrapper as it is
WithUmapFallbackOnError(method, lib, cfg, env, defaults, notFound, onError) ==
    IF env[lib] = "missing"
    THEN LET r == Umap(cfg, env)
         IN  IF r.ok
             THEN After(<<lib>>, <<notFound>>, r)
             ELSE FailRes(Err("ImportError", method, <<r.err.origin>>),
                          <<lib>> \o r.attempts, <<notFound>> \o r.notices)
    ELSE LET c == ApplyDefaults(cfg, defaults)
         IN  IF CallRaises(lib, c, env)
             THEN After(<<lib>>, <<onError>>, Umap(c, env))
             ELSE OkRes(lib, c, <<lib>>, << >>)

GlleDefaults ==
    << <<"method", "GLLE">>, <<"k_neighbors", 10>>, <<"max_iterations", 100>>,
       <<"n_components", 2>>, <<"verbosity", TRUE>> >>

Glle(cfg, env) ==
    WithUmapFallbackOnError("glle", "GLLE", cfg, env, GlleDefaults,
                            "Warning: GLLE package not found, falling back to UMAP",
                            "Error in GLLE, falling back to UMAP")

ClmdsDefaults == << <<"n_clusters", 5>>, <<"max_iter", 300>>, <<"verbose", FALSE>> >>

\* (the import of scipy next to cluster_mds is taken to succeed)
Clmds(cfg, env) ==
    WithUmapFallbackOnError("clmds", "cluster_mds", cfg, env, ClmdsDefaults,
                            "Warning: cluster_mds package not found, falling back to UMAP",
                            "Error in clMDS, falling back to UMAP")

\* ALGOS[method](X, **cfg)
Algo(method, cfg, env) ==
    CASE method = "umap" -> Umap(cfg, env)
      [] method = "tsne" -> Tsne(cfg, env)
      [] method = "phate" -> Phate(cfg, env)
      [] method = "pacmap" -> Pacmap(cfg, env)
      [] method = "spacemap" -> Spacemap(cfg, env)
      [] method = "trimap" -> Trimap(cfg, env)
      [] method = "tsnepso" -> Tsnepso(cfg, env)
      [] method = "glle" -> Glle(cfg, env)
      [] method = "clmds" -> Clmds(cfg, env)

\* the packages a wrapper can reach
LibsOf(method) == {Primary(method)} \cup Range(Fallbacks(method))

\* the environments that differ in what the wrapper of a method can see
EnvsOf(method) ==
    {[l \in Libs |-> IF l \in LibsOf(method) THEN f[l] ELSE "ok"] :
        f \in [LibsOf(method) -> Status]}

\* --param overrides after _parse_kv
ParamInputs ==
    { << >>,
      << <<"n_neighbors", 15>> >>,
      << <<"n_components", 3>> >>,
      << <<"n_iter", 500>>, <<"n_components", 2>> >>,
      << <<"knn", 5>>, <<"decay", 40>> >>,
      << <<"num_iters", 450>> >> }

\* PARAM_DEFS: the names of the parameters of each method
ParamNames(method) ==
    CASE method = "umap" -> {"n_neighbors", "min_dist", "metric", "n_components"}
      [] method = "tsne" -> {"perplexity", "n_iter", "learning_rate", "n_components"}
      [] method = "phate" -> {"knn", "decay", "n_components"}
      [] method = "pacmap" ->
            {"n_neighbors", "num_iters", "lr", "n_components", "MN_ratio", "FP_ratio",
             "apply_pca", "preprocess_pca", "backend", "verbose"}
      [] method = "spacemap" ->
            {"n_near_field", "n_middle_field", "eta", "n_epochs", "n_components",
             "d_local", "d_global", "init", "metric", "verbose"}
      [] method = "trimap" ->
            {"n_inliers", "n_outliers", "n_random", "n_iters", "lr", "apply_pca",
             "n_components"}
      [] method = "tsnepso" ->
            {"perplexity", "n_iter", "n_particles", "n_components", "inertia_weight",
             "learning_rate", "h", "f", "use_hybrid", "dynamic_weight_adaptation",
             "parameter_optimization", "small_dataset_handling",
             "numerical_robustness"}
      [] method = "glle" ->
            {"method", "k_neighbors", "max_iterations", "n_components", "verbosity"}
      [] method = "clmds" -> {"n_clusters", "max_iter", "verbose"}

\* the method whose parameters a package takes
MethodOf(lib) ==
    CASE lib = "sklearn" -> "tsne"
      [] lib = "openTSNE" -> "tsne"
      [] lib = "tsne_pso" -> "tsnepso"
      [] lib = "GLLE" -> "glle"
      [] lib = "cluster_mds" -> "clmds"
      [] OTHER -> lib

(***************************************************************************)
(* SpecExec: one call of a wrapper, for every method, parameters and       *)
(* environment                                                             *)
(***************************************************************************)
ExecInputs ==
    UNION {{[phase |-> "ready", method |-> m, cfg |-> c, env |-> e, res |-> << >>] :
               c \in ParamInputs, e \in EnvsOf(m)} : m \in Methods}

Execute ==
    /\ ex.phase = "ready"
    /\ ex' = [ex EXCEPT !.phase = "done", !.res = <<Algo(ex.method, ex.cfg, ex.env)>>]
    /\ UNCHANGED <<embeddings, configs, points, ret, run>>

InitExec ==
    /\ embeddings = Filenames
    /\ configs = << >>
    /\ points = << >>
    /\ ret = NoRet
    /\ run = IdleRun
    /\ ex \in ExecInputs

NextExec == Execute

SpecExec == InitExec /\ [][NextExec]_vars

(***************************************************************************)
(* SpecDepr: _handle_deprecated_params applied to a mapping, and to its    *)
(* own result.  In this specification ex holds the mapping given, the      *)
(* caller's mapping after the call and the two results.                    *)
(***************************************************************************)
DeprKeys == {"force_all_finite", "ensure_all_finite", "n_iter", "max_iter", "n_neighbors"}
DeprValues == {1, 2}

DeprInputs ==
    {d \in SeqsUpTo(DeprKeys \X DeprValues, MaxKeys) :
        \A i, j \in 1..Len(d) : i # j => d[i][1] # d[j][1]}

InitDepr ==
    /\ embeddings = Filenames
    /\ configs = << >>
    /\ points = << >>
    /\ ret = NoRet
    /\ run = IdleRun
    /\ ex \in {[phase |-> "ready", input |-> d, arg |-> d, once |-> << >>, twice |-> << >>] :
                  d \in DeprInputs}

Rename ==
    /\ ex.phase = "ready"
    /\ ex' = [ex EXCEPT !.phase = "once", !.once = <<HandleDeprecated(ex.arg)>>,
                        !.arg = ArgAfterDeprecated(ex.arg)]
    /\ UNCHANGED <<embeddings, configs, points, ret, run>>

RenameAgain ==
    /\ ex.phase = "once"
    /\ ex' = [ex EXCEPT !.phase = "twice", !.twice = <<HandleDeprecated(ex.once[1])>>]
    /\ UNCHANGED <<embeddings, configs, points, ret, run>>

NextDepr == Rename \/ RenameAgain

SpecDepr == InitDepr /\ [][NextDepr]_vars

(***************************************************************************)
(* fetch_subset (db.py) and the main DR flow (dr.py)                       *)
(***************************************************************************)
\* SUBSET_STRATS
SubsetStrats == {"random", "artist_first5"}

\* a clamp without the lower limit
ClampUpperOnly(n) == IF n > MaxSize THEN MaxSize ELSE n

\* size = max(1, min(500, args.subset_size))
Clamp(n) == IF n < MinSize THEN MinSize ELSE IF n > MaxSize THEN MaxSize ELSE n

\* cfg.get("random_state")
RngState(cfg) == IF Has(cfg, "random_state") THEN <<Get(cfg, "random_state")>> ELSE << >>

\* the columns of the matrix a package returns
Cols(r) ==
    IF r.impl # "cluster_mds" /\ Has(r.cfg, "n_components")
    THEN Get(r.cfg, "n_components") ELSE 2

\* a pairing of the metadata rows with the rows of the matrix in reverse
ZipPointsReversed(meta) ==
    [i \in 1..Len(meta) |-> <<meta[i], ArtistOf(meta[i]), Num(Len(meta) + 1 - i), Num(0)>>]

\* [(m["filename"], m["artist"], x, y) for m, (x, y) in zip(meta, Y)]: row i
\* of the matrix is (i, 0, ...), one row per sampled embedding
ZipPoints(meta) == [i \in 1..Len(meta) |-> <<meta[i], ArtistOf(meta[i]), Num(i), Num(0)>>]

RunFailed(rec, stage, error, db) ==
    [db |-> db, run |-> [rec EXCEPT !.pc = "failed", !.stage = stage, !.error = error]]

\* persisting before the algorithm has run
MainFlowPersistFirst(db, a, env, f, runtime) ==
    LET cfg == HandleDeprecated(a.params)
        size == Clamp(a.subset_size)
        u == upsert_config(db, a.method, a.strategy, size, cfg, runtime, a.config_id)
        rec == [IdleRun EXCEPT !.method = a.method, !.strategy = a.strategy,
                               !.size = size, !.cfg = cfg, !.config_id = a.config_id,
                               !.before = [configs |-> db.configs, points |-> db.points]]
        r == Algo(a.method, cfg, env)
    IN  IF f.raised THEN RunFailed(rec, "fetch", f.exc, db)
        ELSE RunFailed([rec EXCEPT !.meta = f.meta, !.res = <<r>>, !.stderr = r.notices],
                       "execute", r.err.type, u.db)

\* lines 517-542 of dr.py for one outcome f of fetch_subset, one
\* environment and one measured runtime
MainFlow(db, a, env, f, runtime) ==
    LET cfg == HandleDeprecated(a.params)
        size == Clamp(a.subset_size)
        rec0 == [IdleRun EXCEPT !.method = a.method, !.strategy = a.strategy,
                                !.size = size, !.cfg = cfg, !.config_id = a.config_id,
                                !.queried = f.queried,
                                !.before = [configs |-> db.configs, points |-> db.points]]
    IN  IF f.raised THEN RunFailed(rec0, "fetch", f.exc, db)
        ELSE
        LET r == Algo(a.method, cfg, env)
            rec1 == [rec0 EXCEPT !.meta = f.meta, !.res = <<r>>, !.stderr = r.notices]
        IN  IF ~r.ok THEN RunFailed(rec1, "execute", r.err.type, db)
            ELSE
            LET u == upsert_config(db, a.method, a.strategy, size, cfg, runtime,
                                   a.config_id)
                rec2 == [rec1 EXCEPT !.cid = u.val,
                                     !.cascaded = Len(db.points) - Len(u.db.points)]
            IN  IF Cols(r) # 2 THEN RunFailed(rec2, "zip", "ValueError: unpack", u.db)
                ELSE
                LET sv == save_points(u.db, u.val, ZipPoints(f.meta))
                IN  IF sv.raised THEN RunFailed(rec2, "save", sv.exc, sv.db)
                    ELSE
                    LET l == load_config_blob(sv.db, u.val)
                    IN  IF l.raised THEN RunFailed(rec2, "load", l.exc, l.db)
                        ELSE [db |-> l.db,
                              run |-> [rec2 EXCEPT !.pc = "done", !.stage = "print",
                                                   !.stdout = <<l.val>>]]

\* command lines
RunMethods == {"umap", "phate"}
SizeInputs == {0, 1, 501}
RunParamInputs ==
    { << <<"n_neighbors", 15>> >>,
      << <<"n_components", 3>> >>,
      << <<"n_iter", 500>>, <<"random_state", 7>> >> }
RunIdInputs == {NoId} \cup {SomeId(i) : i \in 1..MaxRunId}
RuntimeInputs == {1}

RunInputs ==
    [method : RunMethods, strategy : StrategyInputs, subset_size : SizeInputs,
     params : RunParamInputs, config_id : RunIdInputs]

(***************************************************************************)
(* Actions of Spec: runs of dr.py, one after another                       *)
(***************************************************************************)
Run(a, env, runtime) ==
    /\ run.pc = "idle"
    /\ a.config_id = NoId => NextRowId(configs) <= MaxRunId
    /\ \E f \in fetch_subset(DB, a.strategy, Clamp(a.subset_size),
                             RngState(HandleDeprecated(a.params))) :
          LET o == MainFlow(DB, a, env, f, runtime)
          IN  /\ SetDB(o.db)
              /\ run' = o.run
    /\ UNCHANGED <<ret, ex>>

\* the process has ended
Exit ==
    /\ run.pc # "idle"
    /\ run' = IdleRun
    /\ UNCHANGED <<embeddings, configs, points, ret, ex>>

Next ==
    \/ \E a \in RunInputs, runtime \in RuntimeInputs :
          \E env \in EnvsOf(a.method) : Run(a, env, runtime)
    \/ Exit

Spec == Init /\ [][Next]_vars

(***************************************************************************)
(* SpecRace: two runs of dr.py at the same time, both naming the same      *)
(* explicit config_id.  A step is one storage call (one transaction); the  *)
(* fetch and the algorithm, which write nothing, are the first step.  In   *)
(* this specification run holds one record per process; order numbers the  *)
(* committed upserts and stored counts the points of the process that are  *)
(* in projection_points.                                                   *)
(***************************************************************************)
IdleProc ==
    [pc |-> "idle", stage |-> "none", error |-> "none",
     method |-> "none", strategy |-> "none", size |-> 0, cfg |-> << >>,
     config_id |-> NoId, runtime |-> 0, meta |-> << >>, res |-> << >>, cid |-> 0,
     order |-> 0, stored |-> 0, stdout |-> << >>]

RaceInputs ==
    [method : {"umap"}, strategy : SubsetStrats, subset_size : {0, 501},
     params : {<< <<"n_neighbors", 15>> >>, << <<"n_components", 3>> >>},
     config_id : {SomeId(1)}]

InitRace ==
    /\ \E db \in {[embeddings |-> Filenames, configs |-> << >>, points |-> << >>],
                   OneRunDB} :
          /\ embeddings = db.embeddings
          /\ configs = db.configs
          /\ points = db.points
    /\ ret = NoRet
    /\ run = [p \in Procs |-> IdleProc]
    /\ ex = NoEx

\* lines 517-532: the parameters, fetch_subset and the algorithm
RaceStart(p, a, env, runtime) ==
    /\ run[p].pc = "idle"
    /\ LET cfg == HandleDeprecated(a.params)
           size == Clamp(a.subset_size)
           rec == [IdleProc EXCEPT !.method = a.method, !.strategy = a.strategy,
                                   !.size = size, !.cfg = cfg,
                                   !.config_id = a.config_id, !.runtime = runtime]
           r == Algo(a.method, cfg, env)
       IN  \E f \in fetch_subset(DB, a.strategy, size, RngState(cfg)) :
              run' = [run EXCEPT ![p] =
                        IF f.raised
                        THEN [rec EXCEPT !.pc = "failed", !.stage = "fetch",
                                         !.error = f.exc]
                        ELSE IF ~r.ok
                             THEN [rec EXCEPT !.pc = "failed", !.stage = "execute",
                                              !.error = r.err.type, !.meta = f.meta,
                                              !.res = <<r>>]
                             ELSE [rec EXCEPT !.pc = "executed", !.meta = f.meta,
                                              !.res = <<r>>]]
    /\ UNCHANGED <<embeddings, configs, points, ret, ex>>

\* lines 535-536: upsert_config, and the building of the list of points
\* that follows it without touching the database
RaceUpsert(p) ==
    /\ run[p].pc = "executed"
    /\ LET me == run[p]
           u == upsert_config(DB, me.method, me.strategy, me.size, me.cfg, me.runtime,
                              me.config_id)
           gone == \A i \in 1..Len(u.db.points) : u.db.points[i].config_id # u.val
       IN  /\ SetDB(u.db)
           /\ run' = [q \in Procs |->
                        IF q = p
                        THEN [me EXCEPT !.cid = u.val,
                                        !.order = 1 + Max({run[o].order : o \in Procs}),
                                        !.stored = 0,
                                        !.pc = IF Cols(me.res[1]) # 2 THEN "failed"
                                               ELSE "upserted",
                                        !.stage = IF Cols(me.res[1]) # 2 THEN "zip"
                                                  ELSE @,
                                        !.error = IF Cols(me.res[1]) # 2
                                                  THEN "ValueError: unpack" ELSE @]
                        ELSE IF run[q].cid = u.val /\ gone
                             THEN [run[q] EXCEPT !.stored = 0]
                             ELSE run[q]]
    /\ UNCHANGED <<ret, ex>>

\* line 537: save_points
RaceSave(p) ==
    /\ run[p].pc = "upserted"
    /\ LET sv == save_points(DB, run[p].cid, ZipPoints(run[p].meta))
       IN  /\ SetDB(sv.db)
           /\ run' = [run EXCEPT ![p] =
                        IF sv.raised
                        THEN [@ EXCEPT !.pc = "failed", !.stage = "save", !.error = sv.exc]
                        ELSE [@ EXCEPT !.pc = "saved", !.stored = Len(run[p].meta)]]
    /\ UNCHANGED <<ret, ex>>

\* lines 540-542: load_config_blob and print_json
RaceLoad(p) ==
    /\ run[p].pc = "saved"
    /\ LET l == load_config_blob(DB, run[p].cid)
       IN  /\ SetDB(l.db)
           /\ run' = [run EXCEPT ![p] =
                        IF l.raised
                        THEN [@ EXCEPT !.pc = "failed", !.stage = "load", !.error = l.exc]
                        ELSE [@ EXCEPT !.pc = "done", !.stage = "print",
                                       !.stdout = <<l.val>>]]
    /\ UNCHANGED <<ret, ex>>

NextRace ==
    \/ \E p \in Procs, a \in RaceInputs, runtime \in RuntimeInputs :
          \E env \in EnvsOf(a.method) : RaceStart(p, a, env, runtime)
    \/ \E p \in Procs : RaceUpsert(p)
    \/ \E p \in Procs : RaceSave(p)
    \/ \E p \in Procs : RaceLoad(p)

SpecRace == InitRace /\ [][NextRace]_vars

(***************************************************************************)
(* Properties of the storage operations (SpecStore)                        *)
(***************************************************************************)
Count(q, cid) == Cardinality({i \in 1..Len(q) : q[i].config_id = cid})

IsPrefix(p, q) == Len(p) <= Len(q) /\ SubSeq(q, 1, Len(p)) = p

\* C1: upsert(existing config_id, new values) followed by load(config_id)
\* returns a config whose method, subset_strategy, subset_size, params and
\* runtime are exactly the new values; nothing of the prior row survives.
C1_UpsertThenLoadReturnsNewValues ==
    [][\A v \in ConfigInputs, i \in ConfigIds :
        (i \in DOMAIN configs /\ ret'.op = "upsert_config" /\ ret'.cid = i
           /\ UpsertConfig(v, SomeId(i))) =>
            LET blob == load_config_blob(DB', i)
            IN  /\ ~blob.raised
                /\ blob.val.config_id = i
                /\ blob.val.config.method = v.method
                /\ blob.val.config.subset_strategy = v.subset_strategy
                /\ blob.val.config.subset_size = v.subset_size
                /\ AsMap(JsonLoads(blob.val.config.params_json)) = AsMap(v.params)
                /\ blob.val.config.runtime = v.runtime]_vars

\* an existing row was overwritten while a different row is stored at
\* another id
C1_Witness ==
    /\ ret.op = "upsert_config"
    /\ ret.status = "ok"
    /\ ret.existed
    /\ \E j \in DOMAIN configs : j # ret.cid /\ configs[j] # configs[ret.cid]

\* C6: save(config_id, points) is atomic: all rows of the sequence are
\* persisted, or, if any row fails (bad value, unknown filename, unknown
\* config_id), none is and projection_points is exactly as before the call.
C6_SaveIsAtomic ==
    [][ret'.op = "save_points" =>
        IF ret'.dangling \/ ret'.badvalue
        THEN ret'.status # "ok" /\ points' = points
        ELSE /\ ret'.status = "ok"
             /\ IsPrefix(points, points')
             /\ Len(points') = Len(points) + ret'.rows
             /\ \A i \in (Len(points) + 1)..Len(points') :
                    points'[i].config_id = ret'.cid]_vars

\* a save failed after rows of its sequence had already been written, and
\* the table held a row before
C6_Witness ==
    /\ ret.op = "save_points"
    /\ ret.status # "ok"
    /\ ret.discarded > 0
    /\ Len(points) > 0

\* C7: a save whose points reference a filename that is no embedding or a
\* config_id that is no config is rejected (with the integrity error of the
\* foreign key when its values are numbers) and stores nothing; every stored
\* point references an existing config and an existing embedding.
C7_ReferentialIntegrity ==
    /\ [](\A i \in 1..Len(points) :
            points[i].config_id \in DOMAIN configs /\ points[i].filename \in embeddings)
    /\ [][(ret'.op = "save_points" /\ ret'.dangling) =>
            /\ points' = points
            /\ ret'.status # "ok"
            /\ ~ret'.badvalue => ret'.status = "IntegrityError: FOREIGN KEY"]_vars

\* the foreign key to embeddings rejected a save of an existing config after
\* a row of the sequence had been written
C7_Witness ==
    /\ ret.op = "save_points"
    /\ ret.status = "IntegrityError: FOREIGN KEY"
    /\ ret.existed
    /\ ret.discarded > 0

\* C8: removing a config removes, in the same step, every point of that
\* config; removing an embedding removes every point with that filename in
\* all configs; the points that reference neither are left as they were.
C8_CascadeOnDelete ==
    [][/\ \A cid \in ConfigIds :
            (ret'.op = "delete_config" /\ DeleteConfig(cid)) =>
                /\ cid \notin DOMAIN configs'
                /\ \A i \in 1..Len(points') : points'[i].config_id # cid
                /\ points' = SelectSeq(points, LAMBDA r : r.config_id # cid)
                /\ embeddings' = embeddings
       /\ \A fn \in Filenames :
            (ret'.op = "delete_embedding" /\ DeleteEmbedding(fn)) =>
                /\ fn \notin embeddings'
                /\ \A i \in 1..Len(points') : points'[i].filename # fn
                /\ points' = SelectSeq(points, LAMBDA r : r.filename # fn)
                /\ configs' = configs]_vars

\* a config was removed, some points went with it and others stayed
C8_Witness ==
    /\ ret.op = "delete_config"
    /\ Len(points) < ret.npoints
    /\ Len(points) > 0

\* C10: load(config_id) fails with the not-found error exactly when no
\* config row exists at that id; failing or not it changes no table; on
\* success the returned points are exactly the stored points of that config.
C10_LoadIsReadOnlyJoin ==
    [][ret'.op = "load_config_blob" =>
            /\ (ret'.status = "KeyError") <=> (ret'.cid \notin DOMAIN configs)
            /\ (ret'.status = "ok") <=> (ret'.cid \in DOMAIN configs)
            /\ UNCHANGED <<embeddings, configs, points>>
            /\ ret'.status = "ok" =>
                  /\ ret'.blob[1].config = configs[ret'.cid]
                  /\ \A r \in Range(ret'.blob[1].points) : r.config_id = ret'.cid
                  /\ Range(ret'.blob[1].points) \subseteq Range(points)
                  /\ Len(ret'.blob[1].points) = Count(points, ret'.cid)]_vars

\* a load returned the points of its config while another config has points
C10_Witness ==
    /\ ret.op = "load_config_blob"
    /\ ret.status = "ok"
    /\ Len(ret.blob[1].points) > 0
    /\ Len(ret.blob[1].points) < Len(points)

(***************************************************************************)
(* Properties of the algorithm registry (SpecExec)                         *)
(***************************************************************************)
\* C3: for every method that has a configured fallback, the registry moves
\* to the next alternate both when the current implementation cannot be
\* imported and when it raises during execution; an exception of the primary
\* never reaches the caller while an untried alternate remains.
C3_FallbackOnUnavailableOrRaise ==
    (/\ ex.phase = "done"
     /\ Fallbacks(ex.method) # << >>
     /\ ex.env[Primary(ex.method)] # "ok") =>
        LET r == ex.res[1]
        IN  /\ Len(r.attempts) >= 2
            /\ r.attempts[2] = Fallbacks(ex.method)[1]
            /\ ~(~r.ok /\ r.err.origin = Primary(ex.method))

\* C4: if a method has K configured fallbacks and every one of them fails or
\* is unavailable, execute ends in one terminal error that carries exactly
\* the K underlying causes, in the order the alternates were attempted, for
\* every method and whether the primary was unavailable or raised.
C4_ExhaustionCarriesKCauses ==
    (/\ ex.phase = "done"
     /\ Fallbacks(ex.method) # << >>
     /\ ex.env[Primary(ex.method)] # "ok"
     /\ \A l \in Range(Fallbacks(ex.method)) : ex.env[l] # "ok") =>
        LET r == ex.res[1]
        IN  /\ ~r.ok
            /\ r.err.type = "ImportError"
            /\ r.err.causes = Fallbacks(ex.method)

(***************************************************************************)
(* Properties of the pipeline (Spec)                                       *)
(***************************************************************************)
\* C2: the params persisted for a run and returned by load are the caller's
\* params extended with the defaults the executor filled in, i.e. the
\* keyword arguments the implementation that ran was called with (a umap run
\* given only n_neighbors = 15 is stored with n_components = 2 as well).
C2_StoredParamsIncludeDefaults ==
    (/\ run.pc = "done"
     /\ run.res[1].impl = Primary(run.method)) =>
        /\ AsMap(JsonLoads(configs[run.cid].params_json)) = AsMap(run.res[1].cfg)
        /\ AsMap(JsonLoads(run.stdout[1].config.params_json)) = AsMap(run.res[1].cfg)

\* C5: when the algorithm execution of a run ends in failure, the config
\* rows and the projection points are the same after the run as before it,
\* also when the run named an existing config_id to overwrite.
C5_FailedExecutionWritesNothing ==
    (run.pc = "failed" /\ run.stage = "execute") =>
        /\ configs = run.before.configs
        /\ points = run.before.points

\* every alternate of the method was exhausted in a run that named an
\* existing config with points
C5_Witness ==
    /\ run.pc = "failed"
    /\ run.stage = "execute"
    /\ Len(run.res[1].attempts) = 1 + Len(Fallbacks(run.method))
    /\ Len(run.res[1].attempts) > 1
    /\ run.config_id # NoId
    /\ run.config_id[1] \in DOMAIN run.before.configs
    /\ Count(run.before.points, run.config_id[1]) > 0

\* C9: after any sequence of pipeline runs executed one after another, every
\* config has at most subset_size points; overwriting a config leaves no
\* points of the earlier run attached to it.
C9_AtMostSubsetSizePoints ==
    \A cid \in DOMAIN configs : Count(points, cid) <= configs[cid].subset_size

\* a completed run overwrote a config that had more points than the new
\* subset_size allows
C9_Witness ==
    /\ run.pc = "done"
    /\ run.config_id = SomeId(run.cid)
    /\ run.cid \in DOMAIN run.before.configs
    /\ Count(run.before.points, run.cid) > configs[run.cid].subset_size
    /\ run.cascaded = Count(run.before.points, run.cid)
    /\ Count(points, run.cid) = Len(run.meta)

\* C11: for every requested subset size, the size used for sampling and
\* persisted as subset_size lies in [1, 500], and the sampler returns at
\* most that many rows and never more rows than there are embeddings.
C11_SizeClampedAndRespected ==
    run.pc # "idle" =>
        /\ run.size \in MinSize..MaxSize
        /\ Len(run.meta) <= run.size
        /\ Len(run.meta) <= Cardinality(embeddings)
        /\ run.cid \in DOMAIN configs => configs[run.cid].subset_size = run.size

\* a completed run whose sample was cut to the lower limit of the size
C11_Witness ==
    /\ run.pc = "done"
    /\ run.size = MinSize
    /\ Len(run.meta) = MinSize
    /\ Cardinality(embeddings) > MinSize
    /\ configs[run.cid].subset_size = MinSize

\* C13: a run with a strategy name other than random or artist_first5 fails
\* with the validation error (ValueError) before any embedding is read,
\* before any algorithm is executed and before any storage write: configs
\* and points are unchanged and nothing is emitted on stdout.
C13_UnknownStrategyFailsFirst ==
    (run.pc # "idle" /\ run.strategy \notin SubsetStrats) =>
        /\ run.pc = "failed"
        /\ run.stage = "fetch"
        /\ run.error = "ValueError: strategy"
        /\ ~run.queried
        /\ run.meta = << >>
        /\ run.res = << >>
        /\ configs = run.before.configs
        /\ points = run.before.points
        /\ run.stdout = << >>

\* a run with an unknown strategy that named an existing config with points
C13_Witness ==
    /\ run.pc = "failed"
    /\ run.strategy = "bogus"
    /\ run.config_id # NoId
    /\ run.config_id[1] \in DOMAIN configs
    /\ Count(points, run.config_id[1]) > 0

(***************************************************************************)
(* Properties of fetch_subset (SpecFetch)                                  *)
(***************************************************************************)
\* C12: under artist_first5, for every embeddings table and size, each
\* artist contributes at most 5 rows to the sample, every row is among its
\* artist's first 5 in filename order, and without truncation the sample is
\* exactly those rows.
C12_ArtistFirstFive ==
    (ret.op = "fetch_subset" /\ ret.strategy = "artist_first5") =>
        /\ \A i \in 1..Len(ret.meta) :
              /\ ret.meta[i] \in embeddings
              /\ Cardinality({g \in embeddings : /\ ArtistOf(g) = ArtistOf(ret.meta[i])
                                                 /\ Pos(g) < Pos(ret.meta[i])}) < PerArtist
              /\ Cardinality({j \in 1..Len(ret.meta) :
                                ArtistOf(ret.meta[j]) = ArtistOf(ret.meta[i])}) <= PerArtist
        /\ \A i, j \in 1..Len(ret.meta) : i # j => ret.meta[i] # ret.meta[j]
        /\ ret.size >= Cardinality(embeddings) =>
              Range(ret.meta) = {fn \in embeddings : RowNumber(embeddings, fn) <= PerArtist}

\* an artist with six files gave its first five, the sixth was not selected
C12_Witness ==
    /\ ret.op = "fetch_subset"
    /\ ret.strategy = "artist_first5"
    /\ ret.status = "ok"
    /\ "a6.jpg" \in embeddings
    /\ RowNumber(embeddings, "a6.jpg") = PerArtist + 1
    /\ ret.size > PerArtist
    /\ "a6.jpg" \notin Range(ret.meta)
    /\ Len(ret.meta) = PerArtist + 1

\* C19: under strategy random no filename appears twice in a sample, and
\* when a seed is supplied the draw is reproducible: the request returns
\* rows, and every request with the same seed and size over the same
\* embeddings returns the same rows in the same order.
C19_RandomDrawReproducible ==
    (ret.op = "fetch_subset" /\ ret.strategy = "random") =>
        /\ \A i, j \in 1..Len(ret.meta) : i # j => ret.meta[i] # ret.meta[j]
        /\ (ret.seed # NoSeed /\ embeddings # {}) =>
              /\ ret.status = "ok"
              /\ \A f \in fetch_subset(DB, "random", ret.size, ret.seed) :
                    f.meta = ret.meta

(***************************************************************************)
(* Properties of the connections (SpecStore)                               *)
(***************************************************************************)
\* C16: every storage operation opens its own connection, commits only if
\* its body finished without error, leaves no change persisted if the body
\* raised, and closes the connection on every exit path, so that no
\* connection or open transaction outlives the call.
C16_OwnConnectionCommitOrDiscard ==
    [][ret'.op \in {"fetch_subset", "upsert_config", "save_points", "load_config_blob"} =>
          /\ Len(ret'.trace) >= 2
          /\ ret'.trace[1] = "connect"
          /\ ret'.trace[Len(ret'.trace)] = "close"
          /\ \A i \in 2..Len(ret'.trace) : ret'.trace[i] # "connect"
          /\ ret'.status = "ok" => ret'.trace = <<"connect", "commit", "close">>
          /\ ret'.status \notin {"ok", "ValueError: vstack"} =>
                /\ ret'.trace = <<"connect", "close">>
                /\ DB' = DB]_vars

\* a save wrote rows, raised, and its connection was closed without commit
C16_Witness ==
    /\ ret.op = "save_points"
    /\ ret.status # "ok"
    /\ ret.discarded > 0
    /\ ret.trace = <<"connect", "close">>
    /\ ret.npoints = Len(points)

(***************************************************************************)
(* Properties of the params encoding (SpecCanon)                           *)
(***************************************************************************)
\* C14: the canonicalization of params before persisting is insensitive to
\* insertion order (two mappings with the same key/value set are stored as
\* identical params_json) and idempotent (storing the mapping read back from
\* a stored params_json stores the same params_json).
C14_CanonicalParams ==
    /\ [](ret.op = "upsert_config" =>
            \A q \in DictInputs :
               AsMap(q) = AsMap(ret.params) =>
                  upsert_config(DB, "umap", "random", MinSize, q, 1,
                                SomeId(ret.cid)).db.configs[ret.cid].params_json
                     = configs[ret.cid].params_json)
    /\ [][ret'.op = "upsert_config again" =>
            configs'[ret'.cid].params_json = configs[ret.cid].params_json]_vars

\* a mapping whose insertion order is not the sorted order was stored, read
\* back and stored again
C14_Witness ==
    /\ ret.op = "upsert_config again"
    /\ Len(ret.params) = MaxKeys
    /\ \E q \in DictInputs : AsMap(q) = AsMap(ret.params) /\ q # ret.params
    /\ JsonLoads(configs[ret.cid].params_json) = ret.params

(***************************************************************************)
(* Properties of the notices (SpecExec)                                    *)
(***************************************************************************)
\* C15: on every fallback transition, in every method, a diagnostic notice
\* is written to stderr (the notices of the wrapper, which print sends to
\* stderr and never to stdout): a wrapper that went on to n alternates has
\* printed n notices.
C15_NoticeOnEveryFallbackTransition ==
    ex.phase = "done" =>
        Len(ex.res[1].notices) = Len(ex.res[1].attempts) - 1

(***************************************************************************)
(* Properties of concurrent upserts (SpecConc)                             *)
(***************************************************************************)
RowOf(v) ==
    ConfigRow(v.method, v.subset_strategy, v.subset_size, JsonDumps(v.params), v.runtime)

\* C17: when two runs upsert the same explicit config_id concurrently, in
\* every interleaving one config row exists at that id afterwards and its
\* fields are entirely those of the upsert that committed last; the row is
\* never a mixture of the two writers' field values.
C17_LastCommittedUpsertWins ==
    /\ [][\A p \in Procs :
            (ret[p].phase = "written" /\ ret'[p].phase = "returned"
               /\ ret[p].config_id # NoId) =>
                 /\ ret'[p].cid = ret[p].config_id[1]
                 /\ ret'[p].cid \in DOMAIN configs'
                 /\ configs'[ret'[p].cid] = RowOf(ret[p].args[1])]_vars
    /\ [][(\A p \in Procs : ~(ret[p].phase = "written" /\ ret'[p].phase = "returned"))
            => configs' = configs]_vars
    /\ [](\A i \in DOMAIN configs :
            \/ (i \in DOMAIN OneRunDB.configs /\ configs[i] = OneRunDB.configs[i])
            \/ \E v \in ConfigInputs : configs[i] = RowOf(v))

\* two overlapping upserts of different values to the same explicit id have
\* both committed
C17_Witness ==
    /\ \A p \in Procs : ret[p].phase = "returned" /\ ret[p].status = "ok"
    /\ \A p \in Procs : ret[p].overlap /\ ret[p].config_id = SomeId(1)
    /\ ret[1].args # ret[2].args
    /\ \E p \in Procs : configs[1] = RowOf(ret[p].args[1])

\* C18: upsert_config with no config_id returns an id that no existing
\* config row holds and leaves every existing config row and its points
\* unchanged; two runs that request an id concurrently receive two
\* different ids.
C18_CreateAssignsFreshId ==
    /\ [][\A p \in Procs :
            (ret[p].phase = "written" /\ ret'[p].phase = "returned"
               /\ ret[p].config_id = NoId) =>
                 /\ ret'[p].status = "ok"
                 /\ ret'[p].cid \notin DOMAIN configs
                 /\ DOMAIN configs' = DOMAIN configs \cup {ret'[p].cid}
                 /\ \A i \in DOMAIN configs : configs'[i] = configs[i]
                 /\ points' = points]_vars
    /\ [](\A p, q \in Procs :
            (/\ p # q
             /\ ret[p].phase = "returned" /\ ret[p].status = "ok"
             /\ ret[q].phase = "returned" /\ ret[q].status = "ok"
             /\ ret[p].config_id = NoId /\ ret[q].config_id = NoId)
            => ret[p].cid # ret[q].cid)

\* two overlapping creates have both committed beside an existing config
\* with a point
C18_Witness ==
    /\ \A p \in Procs : ret[p].phase = "returned" /\ ret[p].status = "ok"
    /\ \A p \in Procs : ret[p].overlap /\ ret[p].config_id = NoId
    /\ ret[1].cid # ret[2].cid
    /\ 1 \in DOMAIN configs
    /\ configs[1] = OneRunDB.configs[1]
    /\ points = OneRunDB.points

(***************************************************************************)
(* Properties of the parameters handed to a fallback (SpecExec)            *)
(***************************************************************************)
\* C20: each fallback step passes to its target implementation only
\* parameters that target accepts: a parameter of the original method that
\* the target does not have is dropped or renamed before the call, for
\* every method.
C20_FallbackParamsAccepted ==
    (/\ ex.phase = "done"
     /\ ex.res[1].ok
     /\ ex.res[1].impl # Primary(ex.method)) =>
        Keys(ex.res[1].cfg)
           \cap (ParamNames(ex.method) \ ParamNames(MethodOf(ex.res[1].impl))) = {}

(***************************************************************************)
(* Properties of the renaming of deprecated keys (SpecDepr)                *)
(***************************************************************************)
Renamings == {<<"force_all_finite", "ensure_all_finite">>, <<"n_iter", "max_iter">>}

\* C21: a deprecated key is renamed only when the current key is absent:
\* then the current key receives the old key's value and the old key is
\* removed; when the current key is supplied its value is left untouched.
\* All other keys are unchanged, the input mapping is not mutated, and
\* applying the renaming twice gives the same result as applying it once.
C21_DeprecatedRenaming ==
    ex.phase \in {"once", "twice"} =>
        LET d == ex.input
            o == ex.once[1]
        IN  /\ \A r \in Renamings :
                  IF Has(d, r[1]) /\ ~Has(d, r[2])
                  THEN /\ Has(o, r[2])
                       /\ Get(o, r[2]) = Get(d, r[1])
                       /\ ~Has(o, r[1])
                  ELSE /\ Has(o, r[2]) <=> Has(d, r[2])
                       /\ Has(d, r[2]) => Get(o, r[2]) = Get(d, r[2])
                       /\ Has(o, r[1]) <=> Has(d, r[1])
                       /\ Has(d, r[1]) => Get(o, r[1]) = Get(d, r[1])
            /\ \A k \in (Keys(d) \cup Keys(o)) \ {r[i] : r \in Renamings, i \in 1..2} :
                  Has(d, k) /\ Has(o, k) /\ Get(o, k) = Get(d, k)
            /\ \A i, j \in 1..Len(o) : i # j => o[i][1] # o[j][1]
            /\ ex.arg = d
            /\ ex.phase = "twice" => ex.twice[1] = o

\* a mapping with one deprecated key to rename and one whose current key is
\* supplied with another value was renamed twice
C21_Witness ==
    /\ ex.phase = "twice"
    /\ Has(ex.input, "n_iter") /\ ~Has(ex.input, "max_iter")
    /\ Has(ex.input, "force_all_finite") /\ Has(ex.input, "ensure_all_finite")
    /\ Get(ex.input, "force_all_finite") # Get(ex.input, "ensure_all_finite")
    /\ Has(ex.once[1], "max_iter") /\ ~Has(ex.once[1], "n_iter")

(***************************************************************************)
(* Order of the attempts of one wrapper call (SpecExec)                    *)
(***************************************************************************)
\* C22: within one execute call the alternates are attempted strictly in
\* their configured order, each at most once, starting with the primary; as
\* soon as one returns a result no further alternate is invoked and that
\* result is returned.
C22_AttemptsInOrderNoRetry ==
    ex.phase = "done" =>
        LET r == ex.res[1]
            order == <<Primary(ex.method)>> \o Fallbacks(ex.method)
            n == Len(r.attempts)
        IN  /\ n >= 1
            /\ IsPrefix(r.attempts, order)
            /\ \A i, j \in 1..n : i # j => r.attempts[i] # r.attempts[j]
            /\ \A i \in 1..(n - 1) : ex.env[r.attempts[i]] # "ok"
            /\ r.ok <=> ex.env[r.attempts[n]] = "ok"
            /\ r.ok => r.impl = r.attempts[n]

\* tsnepso without tsne_pso: umap returned the result and sklearn, although
\* installed, was not tried
C22_Witness ==
    /\ ex.phase = "done"
    /\ ex.method = "tsnepso"
    /\ ex.env["tsne_pso"] = "missing"
    /\ ex.env["sklearn"] = "ok"
    /\ ex.res[1].ok
    /\ ex.res[1].impl = "umap"
    /\ ex.res[1].attempts = <<"tsne_pso", "umap">>

(***************************************************************************)
(* A config row and its points (Spec)                                      *)
(***************************************************************************)
\* C23: a config row is persisted together with its run's outputs: after a
\* pipeline run has ended, successfully or with an error at any step, either
\* both the run's config row and all of its points are stored, or neither
\* is (the stored configs and points are those from before the run).
C23_ConfigPersistedWithOutputs ==
    run.pc \in {"done", "failed"} =>
        \/ /\ configs = run.before.configs
           /\ points = run.before.points
        \/ /\ run.cid \in DOMAIN configs
           /\ Len(run.meta) > 0
           /\ Count(points, run.cid) = Len(run.meta)

(***************************************************************************)
(* Two interleaved runs on one config_id (SpecRace)                        *)
(***************************************************************************)
\* C24: when two pipeline runs that name the same explicit config_id
\* interleave at the granularity of their storage calls, then once both have
\* finished the config at that id has at most its subset_size points and all
\* of them were produced by the run whose config row survived (the run whose
\* upsert was committed last).  Stated for two runs that both ended without
\* an error.
C24_InterleavedRunsKeepConfig ==
    (\A p \in Procs : run[p].pc = "done") =>
        LET last == CHOOSE p \in Procs : \A q \in Procs : run[q].order <= run[p].order
            cid == run[last].cid
        IN  /\ cid \in DOMAIN configs
            /\ Count(points, cid) <= configs[cid].subset_size
            /\ \A q \in Procs \ {last} : run[q].cid = cid => run[q].stored = 0
            /\ Count(points, cid) = run[last].stored

(***************************************************************************)
(* The points of a completed run (Spec)                                    *)
(***************************************************************************)
\* C25: the points persisted for a run pair the i-th metadata row with the
\* i-th row of the algorithm output (row i of the matrix is (i, 0)): every
\* stored point's (filename, artist) is a sampled row of that run, no
\* sampled filename appears in two points of the run, and the number of
\* points stored equals the number of sampled rows.  Stated for a run in
\* which save_points has returned.
C25_PointsAlignedWithMeta ==
    run.pc = "done" =>
        LET mine == SelectSeq(points, LAMBDA r : r.config_id = run.cid)
        IN  /\ Len(mine) = Len(run.meta)
            /\ \A i \in 1..Len(mine) :
                  /\ mine[i].filename = run.meta[i]
                  /\ mine[i].artist = ArtistOf(run.meta[i])
                  /\ mine[i].x = i
                  /\ mine[i].filename \in embeddings
            /\ \A i, j \in 1..Len(mine) : i # j => mine[i].filename # mine[j].filename

\* a completed run sampled two embeddings in an order that is not the
\* order of the table, over a config that had points before
C25_Witness ==
    /\ run.pc = "done"
    /\ run.meta = <<"b1.jpg", "a1.jpg">>
    /\ Count(run.before.points, run.cid) > 0
    /\ Count(points, run.cid) = 2

====
